---- MODULE Spec2Model ----
(***************************************************************************)
(* Bugzilla4 (bugzilla/bugzilla4.py): the adapter that maps the methods of *)
(* a Bugzilla 4.x XML-RPC service onto the backend methods of              *)
(* bugzilla.base.BugzillaBase.                                             *)
(*                                                                         *)
(* The adapter is a sequential program.  One method runs at a time; it     *)
(* builds a parameter mapping, blocks in self._proxy.<Method>(...), and    *)
(* reshapes the reply.  The proxy is the environment: it answers the call  *)
(* in flight with a reply or with an xmlrpclib.Fault.  No method has a     *)
(* try/except, so a Fault unwinds the method.                              *)
(*                                                                         *)
(* Representation of Python values                                         *)
(*   str that is split, joined or formatted : sequence of 1-char strings   *)
(*   str that is only passed through        : TLA+ string                  *)
(*   list                                   : sequence                     *)
(*   dict                                   : function on its key set      *)
(*   argument of more than one Python type  : tagged record [t, v]         *)
(*   None                                   : None                         *)
(***************************************************************************)
EXTENDS Integers, Sequences, FiniteSets, TLC

VARIABLES
    op,        \* the method invoked last ("none" before the first one)
    pc,        \* "idle", "wait" (blocked in a proxy call), "done"
    arg,       \* the arguments the caller passed to op
    calls,     \* the proxy calls op has issued, in order: [method, params]
    replies,   \* what the proxy answered to calls[1..Len(replies)]
    result     \* how op ended: returned value or raised exception

vars == <<op, pc, arg, calls, replies, result>>

(***************************************************************************)
(* Bounds of the model.                                                    *)
(***************************************************************************)
MaxIds == 3        \* length of the idlist given to _getbugs
MaxBugs == 2       \* bug records in a Bug.get_bugs reply
MaxStrLen == 5     \* length of a bug_id string given to _query
MaxCols == 3       \* length of a column_list given to _query
MaxHits == 2       \* bug records in a Bug.search reply
MaxFlags == 2      \* entries of a bug record's flags list
MaxBlocks == 2     \* entries of a bug record's blocks list
MaxFields == 2     \* entries of a Bug.fields reply

SeqUpTo(S, n) == UNION {[1..k -> S] : k \in 0..n}

(***************************************************************************)
(* Python builtins the adapter uses.                                       *)
(***************************************************************************)
None == [t |-> "NoneType"]
PyInt(n) == [t |-> "int", v |-> n]
PyStr(s) == [t |-> "str", v |-> s]
PyList(l) == [t |-> "list", v |-> l]

Digits == <<"0", "1", "2", "3", "4", "5", "6", "7", "8", "9">>

DigitValue(c) == (CHOOSE d \in 1..10 : Digits[d] = c) - 1

IsDigit(c) == \E d \in 1..10 : Digits[d] = c

RECURSIVE str_to_int(_)
\* the value of a non-empty string of decimal digits
str_to_int(s) ==
    IF Len(s) = 1 THEN DigitValue(s[1])
    ELSE 10 * str_to_int(SubSeq(s, 1, Len(s) - 1)) + DigitValue(s[Len(s)])

\* int(x): an int is itself, a string of decimal digits is its value, any
\* other string is a ValueError, None and lists are a TypeError.
py_int(x) ==
    CASE x.t = "int" -> [ok |-> TRUE, v |-> x.v]
      [] x.t = "str" ->
            IF Len(x.v) > 0 /\ \A k \in 1..Len(x.v) : IsDigit(x.v[k])
            THEN [ok |-> TRUE, v |-> str_to_int(x.v)]
            ELSE [ok |-> FALSE, exc |-> "ValueError"]
      [] OTHER -> [ok |-> FALSE, exc |-> "TypeError"]

RECURSIVE py_str(_)
\* str(n) of an int
py_str(n) ==
    IF n < 0 THEN <<"-">> \o py_str(0 - n)
    ELSE IF n < 10 THEN <<Digits[n + 1]>>
    ELSE py_str(n \div 10) \o <<Digits[(n % 10) + 1]>>

RECURSIVE str_split(_, _)
\* s.split(c) for a one-character separator c
str_split(s, c) ==
    IF \A k \in 1..Len(s) : s[k] # c THEN <<s>>
    ELSE LET k == CHOOSE j \in 1..Len(s) :
                      s[j] = c /\ \A h \in 1..(j - 1) : s[h] # c
         IN  <<SubSeq(s, 1, k - 1)>> \o str_split(SubSeq(s, k + 1, Len(s)), c)

RECURSIVE str_join(_, _)
\* sep.join(l)
str_join(sep, l) ==
    IF l = <<>> THEN <<>>
    ELSE IF Len(l) = 1 THEN l[1]
    ELSE l[1] \o sep \o str_join(sep, Tail(l))

\* x in l, for a list l
list_contains(l, x) == \E k \in 1..Len(l) : l[k] = x

\* l.remove(x): drops the first x of l (x is in l)
list_remove(l, x) ==
    LET k == CHOOSE j \in 1..Len(l) :
                 l[j] = x /\ \A h \in 1..(j - 1) : l[h] # x
    IN  SubSeq(l, 1, k - 1) \o SubSeq(l, k + 1, Len(l))

\* the truth value an if statement gives x
truthy(x) ==
    CASE x.t = "NoneType" -> FALSE
      [] x.t = "int" -> x.v # 0
      [] OTHER -> Len(x.v) > 0

\* d[k] = v and del d[k] on a dict
dict_set(d, k, v) == [x \in DOMAIN d \cup {k} |-> IF x = k THEN v ELSE d[x]]

dict_del(d, k) == [x \in DOMAIN d \ {k} |-> d[x]]

EmptyDict == [x \in {} |-> None]

(***************************************************************************)
(* The frame of every method: invoked when no method is running; either    *)
(* raises before any proxy call, or issues a call and blocks; a reply ends *)
(* the method with a value.                                                *)
(***************************************************************************)
NoResult == [kind |-> "none"]

Invoke(o, a) ==
    /\ pc = "idle"
    /\ op' = o
    /\ arg' = a
    /\ replies' = <<>>

Issue(o, a, m, p) ==
    /\ Invoke(o, a)
    /\ calls' = <<[method |-> m, params |-> p]>>
    /\ pc' = "wait"
    /\ result' = NoResult

RaiseLocal(o, a, e) ==
    /\ Invoke(o, a)
    /\ calls' = <<>>
    /\ pc' = "done"
    /\ result' = [kind |-> "raise", exc |-> e]

Blocked(o, m) ==
    /\ pc = "wait"
    /\ op = o
    /\ Len(replies) = Len(calls) - 1
    /\ calls[Len(calls)].method = m

Return(o, m, r, v) ==
    /\ Blocked(o, m)
    /\ replies' = Append(replies, [kind |-> "ok", value |-> r])
    /\ result' = [kind |-> "return", value |-> v]
    /\ pc' = "done"
    /\ UNCHANGED <<op, arg, calls>>

\* Fault with a handler that swallows the Fault and returns None
Fault_swallowed(code, msg) ==
    /\ pc = "wait"
    /\ Len(replies) = Len(calls) - 1
    /\ replies' = Append(replies, [kind |-> "fault", code |-> code, msg |-> msg])
    /\ result' = [kind |-> "return", value |-> None]
    /\ pc' = "done"
    /\ UNCHANGED <<op, arg, calls>>

\* The call in flight raises xmlrpclib.Fault(code, msg); the method has no
\* handler, so the caller gets the Fault.
Fault(code, msg) ==
    /\ pc = "wait"
    /\ Len(replies) = Len(calls) - 1
    /\ replies' = Append(replies, [kind |-> "fault", code |-> code, msg |-> msg])
    /\ result' = [kind |-> "raise", exc |-> "Fault", code |-> code, msg |-> msg]
    /\ pc' = "done"
    /\ UNCHANGED <<op, arg, calls>>

\* The caller has the value or the exception; nothing of the call is kept.
Collect ==
    /\ pc = "done"
    /\ op' = "none"
    /\ pc' = "idle"
    /\ arg' = EmptyDict
    /\ calls' = <<>>
    /\ replies' = <<>>
    /\ result' = NoResult

FaultCodes == {51, 304}
FaultMsgs == {"Bad Login Name", "Not authorized"}

(***************************************************************************)
(* _getbugs, _getbug                                                       *)
(***************************************************************************)
\* bugdict = dict([(b['id'], b) for b in r['bugs']]): a later record with
\* the same id replaces an earlier one.
bugdict(bugs) ==
    [i \in {bugs[k].id : k \in 1..Len(bugs)} |->
        bugs[CHOOSE k \in 1..Len(bugs) :
                 bugs[k].id = i /\ \A h \in (k + 1)..Len(bugs) : bugs[h].id # i]]

\* bugdict.get(i)
dict_get(d, i) == IF i \in DOMAIN d THEN d[i] ELSE None

\* getbugs_result without the None of the ids that were not found
getbugs_result_found(idlist, r) ==
    SelectSeq([k \in 1..Len(idlist) |-> dict_get(bugdict(r.bugs), idlist[k])],
              LAMBDA b : b # None)

\* [bugdict.get(i) for i in idlist]
getbugs_result(idlist, r) ==
    [k \in 1..Len(idlist) |-> dict_get(bugdict(r.bugs), idlist[k])]

\* idlist = map(lambda i: int(i), idlist), then the Bug.get_bugs call.  The
\* module is Python 2 (xmlrpclib): map returns a list, the first id that
\* int() rejects raises, and nothing is called.
getbugs_call(o, idlist) ==
    /\ pc = "idle"
    /\ LET conv == [k \in 1..Len(idlist) |-> py_int(idlist[k])]
           bad == {k \in 1..Len(idlist) : ~conv[k].ok}
       IN  IF bad # {}
           THEN RaiseLocal(o, [idlist |-> idlist],
                           conv[CHOOSE k \in bad : \A h \in bad : k <= h].exc)
           ELSE Issue(o, [idlist |-> idlist], "Bug.get_bugs",
                      [ids |-> [k \in 1..Len(idlist) |-> conv[k].v],
                       permissive |-> 1])

getbugs(idlist) == getbugs_call("_getbugs", idlist)

getbugs_ret(r) ==
    Return("_getbugs", "Bug.get_bugs", r,
           getbugs_result(calls[1].params.ids, r))

getbug(id) == getbugs_call("_getbug", <<id>>)

getbug_ret(r) ==
    Return("_getbug", "Bug.get_bugs", r,
           getbugs_result(calls[1].params.ids, r)[1])

\* ids handed to _getbugs: ints and strings, some not integer-like
IdArgs == {PyInt(1), PyStr(<<"2">>), PyStr(<<"1", "2">>), PyStr(<<"x">>)}

\* records a Bug.get_bugs reply is made of; two of them share id 1
GetBugRecords ==
    {[id |-> 1, summary |-> "a"], [id |-> 1, summary |-> "b"],
     [id |-> 2, summary |-> "a"], [id |-> 12, summary |-> "a"]}

GetBugsReplies == {[bugs |-> b] : b \in SeqUpTo(GetBugRecords, MaxBugs)}

(***************************************************************************)
(* _login, _logout                                                         *)
(***************************************************************************)
login(user, password) ==
    Issue("_login", [user |-> user, password |-> password], "User.login",
          [login |-> user, password |-> password])

login_ret(r) == Return("_login", "User.login", r, r)

logout == Issue("_logout", EmptyDict, "User.logout", <<>>)

logout_ret(r) == Return("_logout", "User.logout", r, r)

Users == {"alice@example.com"}
Passwords == {"secret"}
LoginReplies == {[id |-> 7]}
LogoutReplies == {EmptyDict}

(***************************************************************************)
(* _getproducts                                                            *)
(***************************************************************************)
getproducts ==
    Issue("_getproducts", EmptyDict, "Product.get_accessible_products", <<>>)

\* product_ids is back: r = self._proxy.Product.get_products(product_ids)
getproducts_ids_ret(product_ids) ==
    /\ Blocked("_getproducts", "Product.get_accessible_products")
    /\ replies' = Append(replies, [kind |-> "ok", value |-> product_ids])
    /\ calls' = Append(calls, [method |-> "Product.get_products",
                               params |-> product_ids])
    /\ UNCHANGED <<op, pc, arg, result>>

getproducts_ret(r) ==
    Return("_getproducts", "Product.get_products", r, r.products)

ProductIds == {1, 2}
AccessibleReplies == {[ids |-> l] : l \in SeqUpTo(ProductIds, 2)}
ProductRecords == {[id |-> i, name |-> "product"] : i \in ProductIds}
ProductsReplies == {[products |-> l] : l \in SeqUpTo(ProductRecords, 1)}

(***************************************************************************)
(* _getcomponents                                                          *)
(***************************************************************************)
\* self._product_name_to_id(name) of the base class: the id of the product
\* of that name, or None when no product has it.
product_name_to_id(name) == {PyInt(i) : i \in ProductIds} \cup {None}

\* if type(product) == str: product = self._product_name_to_id(product)
getcomponents(product) ==
    /\ pc = "idle"
    /\ \E resolved \in (IF product.t = "str" THEN product_name_to_id(product.v)
                        ELSE {product}) :
           Issue("_getcomponents", [product |-> product], "Bug.legal_values",
                 [product_id |-> resolved, field |-> "component"])

getcomponents_ret(r) ==
    Return("_getcomponents", "Bug.legal_values", r, r.values)

ProductArgs == {PyInt(1), PyStr("product")}
LegalValuesReplies == {[values |-> l] : l \in SeqUpTo({"kernel", "glibc"}, 1)}

(***************************************************************************)
(* _createbug, _createuser                                                 *)
(***************************************************************************)
createbug(data) == Issue("_createbug", data, "Bug.create", data)

createbug_ret(r) == Return("_createbug", "Bug.create", r, r.id)

createuser(email, name, password) ==
    Issue("_createuser", [email |-> email, name |-> name, password |-> password],
          "User.create", <<PyStr(email), name, password>>)

createuser_ret(userid) == Return("_createuser", "User.create", userid, userid)

BugData ==
    {EmptyDict, [summary |-> "s"],
     [product |-> "p", component |-> "c", summary |-> "s", version |-> "1"]}
CreateReplies == {[id |-> 100]}
OptStrs == {None, PyStr("x")}

(***************************************************************************)
(* _addcomment                                                             *)
(***************************************************************************)
\* addcomment_params that sends the timestamp too
addcomment_params_stamped(id, comment, private, timestamp, worktime, bz_gid) ==
    [id |-> id, comment |-> comment, private |-> private, work_time |-> worktime,
     timestamp |-> timestamp]

addcomment_params(id, comment, private, timestamp, worktime, bz_gid) ==
    [id |-> id, comment |-> comment, private |-> private, work_time |-> worktime]

addcomment(id, comment, private, timestamp, worktime, bz_gid) ==
    Issue("_addcomment",
          [id |-> id, comment |-> comment, private |-> private,
           timestamp |-> timestamp, worktime |-> worktime, bz_gid |-> bz_gid],
          "Bug.add_comment",
          addcomment_params(id, comment, private, timestamp, worktime, bz_gid))

addcomment_ret(r) == Return("_addcomment", "Bug.add_comment", r, r)

BugIds == {1, 2}
Comments == {"x", "y"}
Timestamps == {"", "2020-01-01"}
Worktimes == {"", "1.5"}
Gids == {"", "devel"}

(***************************************************************************)
(* _getusers                                                               *)
(***************************************************************************)
\* getusers_params testing "is not None" where the code tests truth
getusers_params_not_none(ids, names, match) ==
    LET given == [ids |-> ids, names |-> names, match |-> match]
    IN  [k \in {x \in {"ids", "names", "match"} : given[x] # None} |-> given[k]]

\* params = {}; each of ids, names, match is added when it is true
getusers_params(ids, names, match) ==
    LET given == [ids |-> ids, names |-> names, match |-> match]
    IN  [k \in {x \in {"ids", "names", "match"} : truthy(given[x])} |-> given[k]]

getusers(ids, names, match) ==
    /\ pc = "idle"
    /\ LET a == [ids |-> ids, names |-> names, match |-> match]
           params == getusers_params(ids, names, match)
       IN  IF DOMAIN params = {}
           THEN RaiseLocal("_getusers", a, "NeedParamError")
           ELSE Issue("_getusers", a, "User.get", params)

getusers_ret(r) == Return("_getusers", "User.get", r, r)

UserIdArgs == {None, PyList(<<>>), PyList(<<1>>), PyList(<<1, 2>>)}
UserNameArgs == {None, PyList(<<>>), PyList(<<"alice">>), PyStr(<<>>)}
UserMatchArgs == {None, PyList(<<>>), PyList(<<"ali">>), PyStr(<<>>)}
UsersReplies == {[users |-> <<>>], [users |-> <<[id |-> 1, name |-> "alice"]>>]}

(***************************************************************************)
(* _query                                                                  *)
(***************************************************************************)
\* query_bug_id without the split: a bug_id string becomes a one-element id
query_bug_id_unsplit(q) ==
    IF "bug_id" \notin DOMAIN q THEN [ok |-> TRUE, query |-> q]
    ELSE IF q["bug_id"].t = "list"
    THEN [ok |-> TRUE,
          query |-> dict_del(dict_set(q, "id", q["bug_id"].v), "bug_id")]
    ELSE IF q["bug_id"].t = "str"
    THEN [ok |-> TRUE,
          query |-> dict_del(dict_set(q, "id", <<q["bug_id"].v>>), "bug_id")]
    ELSE [ok |-> FALSE, exc |-> "AttributeError"]

\* lines 153-158: bug_id becomes id.  A bug_id that is neither a list nor a
\* str has no split: AttributeError, raised before query is changed.
query_bug_id(q) ==
    IF "bug_id" \notin DOMAIN q THEN [ok |-> TRUE, query |-> q]
    ELSE IF q["bug_id"].t = "list"
    THEN [ok |-> TRUE,
          query |-> dict_del(dict_set(q, "id", q["bug_id"].v), "bug_id")]
    ELSE IF q["bug_id"].t = "str"
    THEN [ok |-> TRUE,
          query |-> dict_del(dict_set(q, "id", str_split(q["bug_id"].v, ",")),
                             "bug_id")]
    ELSE [ok |-> FALSE, exc |-> "AttributeError"]

\* query_include_fields without del query['column_list']
query_include_fields_kept(q) ==
    LET q1 == dict_set(q, "include_fields", <<>>)
    IN  IF "column_list" \in DOMAIN q1
        THEN dict_set(q1, "include_fields", q1["column_list"])
        ELSE q1

\* lines 160-163: include_fields is the column_list, or a new empty list
query_include_fields(q) ==
    LET q1 == dict_set(q, "include_fields", <<>>)
    IN  IF "column_list" \in DOMAIN q1
        THEN dict_del(dict_set(q1, "include_fields", q1["column_list"]),
                      "column_list")
        ELSE q1

\* lines 165-167 and 169-171: if old in include_fields: remove(old), append(new)
query_rename(q, old, new) ==
    IF list_contains(q["include_fields"], old)
    THEN dict_set(q, "include_fields",
                  Append(list_remove(q["include_fields"], old), new))
    ELSE q

\* lines 153-171: the mapping Bug.search is called with
query_normalize(q) ==
    LET a == query_bug_id(q)
    IN  IF ~a.ok THEN a
        ELSE [ok |-> TRUE,
              query |-> query_rename(
                            query_rename(query_include_fields(a.query),
                                         "blockedby", "blocks"),
                            "bug_id", "id")]

query(q) ==
    /\ pc = "idle"
    /\ LET n == query_normalize(q)
       IN  IF n.ok THEN Issue("_query", [query |-> q], "Bug.search", n.query)
           ELSE RaiseLocal("_query", [query |-> q], n.exc)

\* bug_flags with line 182 one level out: flags is set on every bug
bug_flags_always(bug) ==
    dict_set(bug, "flags",
             IF "flags" \in DOMAIN bug
             THEN str_join(<<",">>,
                           [k \in 1..Len(bug["flags"]) |->
                               bug["flags"][k].name \o bug["flags"][k].status])
             ELSE <<>>)

\* lines 177-182: flags becomes the joined name+status strings
bug_flags(bug) ==
    IF "flags" \in DOMAIN bug
    THEN dict_set(bug, "flags",
                  str_join(<<",">>,
                           [k \in 1..Len(bug["flags"]) |->
                               bug["flags"][k].name \o bug["flags"][k].status]))
    ELSE bug

\* bug_blockedby without the else of line 186: no blockedby for no blocker
bug_blockedby_nonempty(bug) ==
    IF "blocks" \in DOMAIN bug /\ Len(bug["blocks"]) > 0
    THEN dict_set(bug, "blockedby",
                  str_join(<<",">>,
                           [k \in 1..Len(bug["blocks"]) |->
                               py_str(bug["blocks"][k])]))
    ELSE bug

\* lines 183-187: blockedby is the joined str() of the ids in blocks
bug_blockedby(bug) ==
    IF "blocks" \in DOMAIN bug
    THEN IF Len(bug["blocks"]) > 0
         THEN dict_set(bug, "blockedby",
                       str_join(<<",">>,
                                [k \in 1..Len(bug["blocks"]) |->
                                    py_str(bug["blocks"][k])]))
         ELSE dict_set(bug, "blockedby", <<>>)
    ELSE bug

\* lines 188-189: bug_id is id
bug_bug_id(bug) ==
    IF "id" \in DOMAIN bug THEN dict_set(bug, "bug_id", bug["id"]) ELSE bug

\* lines 176-189, for one bug of ret['bugs']
query_compat(bug) == bug_bug_id(bug_blockedby(bug_flags(bug)))

query_ret(ret) ==
    Return("_query", "Bug.search", ret,
           dict_set(ret, "bugs",
                    [k \in 1..Len(ret["bugs"]) |-> query_compat(ret["bugs"][k])]))

Absent == [has |-> FALSE]
Present(S) == {[has |-> TRUE, v |-> x] : x \in S}
Opt(S) == {Absent} \cup Present(S)

\* a dict of the keys that are given
mk_dict(keys, opts) == [k \in {x \in keys : opts[x].has} |-> opts[k].v]

BugIdChars == {"1", "2", ","}
BugIdArgs ==
    {PyStr(s) : s \in SeqUpTo(BugIdChars, MaxStrLen)}
    \cup {PyList(l) : l \in SeqUpTo({<<"1">>, <<"1", "2">>}, 2)}
    \cup {PyInt(12)}
ColumnNames == {"blockedby", "bug_id", "summary", "id"}
ColumnLists == SeqUpTo(ColumnNames, MaxCols)

mk_query(b, c, f) ==
    mk_dict({"product", "bug_id", "column_list", "include_fields"},
            [product |-> [has |-> TRUE, v |-> "Fedora"], bug_id |-> b,
             column_list |-> c, include_fields |-> f])

\* Queries of _query: every bug_id with two column lists, every column list
\* with two bug_ids, with and without an include_fields key of the caller.
Queries ==
    {mk_query(b, c, Absent) :
        b \in Opt(BugIdArgs), c \in Opt({<<"bug_id", "blockedby">>})}
    \cup {mk_query(b, c, f) :
        b \in Opt({PyStr(<<"1", ",", "2">>)}), c \in Opt(ColumnLists),
        f \in Opt({<<"summary">>})}

FlagRecords ==
    {[name |-> <<"r", "e", "v", "i", "e", "w">>, status |-> <<"+">>],
     [name |-> <<"q", "e">>, status |-> <<"?">>]}
BlockIds == {5, 12}

mk_bug(f, b, i, o) ==
    mk_dict({"flags", "blocks", "id", "blockedby"},
            [flags |-> f, blocks |-> b, id |-> i, blockedby |-> o])

\* Records of a Bug.search reply: every flags list (with an id), every
\* blocks list, a record with flags, blocks and id, and one that came with
\* a blockedby of the service's.
SearchRecords ==
    {mk_bug(f, Absent, [has |-> TRUE, v |-> 7], Absent) :
        f \in Opt(SeqUpTo(FlagRecords, MaxFlags))}
    \cup {mk_bug(Absent, b, Absent, Absent) :
        b \in Present(SeqUpTo(BlockIds, MaxBlocks))}
    \cup {[id |-> 7, blocks |-> <<5>>,
           flags |-> <<[name |-> <<"q", "e">>, status |-> <<"?">>]>>],
          [blockedby |-> <<"9">>]}

SearchReplies == {[bugs |-> l] : l \in SeqUpTo(SearchRecords, MaxHits)}

\* the replies used where the queries vary
FewSearchReplies ==
    {[bugs |-> <<>>],
     [bugs |-> <<[id |-> 7, blocks |-> <<5, 12>>,
                  flags |-> <<[name |-> <<"q", "e">>, status |-> <<"?">>]>>]>>]}

\* the queries used where the replies vary
FewQueries ==
    {mk_query(Absent, Absent, Absent),
     mk_query([has |-> TRUE, v |-> PyStr(<<"1", ",", "2">>)],
              [has |-> TRUE, v |-> <<"bug_id", "blockedby">>], Absent)}

(***************************************************************************)
(* _getbugfields                                                           *)
(***************************************************************************)
getbugfields ==
    Issue("_getbugfields", EmptyDict, "Bug.fields", [include_fields |-> <<"name">>])

\* getbugfields_result without tmp.append('blockedby')
getbugfields_result_bare(r) == [k \in 1..Len(r.fields) |-> r.fields[k].name]

\* tmp = [f['name'] for f in r['fields']]; tmp.append('blockedby')
getbugfields_result(r) ==
    Append([k \in 1..Len(r.fields) |-> r.fields[k].name], "blockedby")

getbugfields_ret(r) ==
    Return("_getbugfields", "Bug.fields", r, getbugfields_result(r))

FieldNames == {"summary", "cf_qa", "blockedby"}
FieldsReplies ==
    {[fields |-> l] : l \in SeqUpTo({[name |-> n] : n \in FieldNames}, MaxFields)}

Init ==
    /\ op = "none"
    /\ pc = "idle"
    /\ arg = EmptyDict
    /\ calls = <<>>
    /\ replies = <<>>
    /\ result = NoResult

\* the steps every specification has
Environment ==
    \/ \E c \in FaultCodes, m \in FaultMsgs : Fault(c, m)
    \/ Collect

Next ==
    \/ pc = "idle" /\ \E u \in Users, p \in Passwords : login(u, p)
    \/ pc = "wait" /\ \E r \in LoginReplies : login_ret(r)
    \/ pc = "idle" /\ logout
    \/ pc = "wait" /\ \E r \in LogoutReplies : logout_ret(r)
    \/ pc = "idle" /\ getproducts
    \/ pc = "wait" /\ \E r \in AccessibleReplies : getproducts_ids_ret(r)
    \/ pc = "wait" /\ \E r \in ProductsReplies : getproducts_ret(r)
    \/ pc = "idle" /\ \E p \in ProductArgs : getcomponents(p)
    \/ pc = "wait" /\ \E r \in LegalValuesReplies : getcomponents_ret(r)
    \/ pc = "idle" /\ \E l \in SeqUpTo(IdArgs, MaxIds) : getbugs(l)
    \/ pc = "wait" /\ \E r \in GetBugsReplies : getbugs_ret(r)
    \/ pc = "idle" /\ \E i \in IdArgs : getbug(i)
    \/ pc = "wait" /\ \E r \in GetBugsReplies : getbug_ret(r)
    \/ pc = "idle" /\ \E d \in BugData : createbug(d)
    \/ pc = "wait" /\ \E r \in CreateReplies : createbug_ret(r)
    \/ pc = "idle" /\ \E e \in Users, n \in OptStrs, p \in OptStrs :
                          createuser(e, n, p)
    \/ pc = "wait" /\ \E r \in CreateReplies : createuser_ret(r)
    \/ pc = "idle" /\ \E i \in BugIds, c \in Comments, p \in BOOLEAN, t \in Timestamps,
                         w \in Worktimes, g \in Gids : addcomment(i, c, p, t, w, g)
    \/ pc = "wait" /\ \E r \in CreateReplies : addcomment_ret(r)
    \/ pc = "idle" /\ \E i \in UserIdArgs, n \in UserNameArgs, m \in UserMatchArgs :
                          getusers(i, n, m)
    \/ pc = "wait" /\ \E r \in UsersReplies : getusers_ret(r)
    \/ pc = "idle" /\ \E q \in Queries : query(q)
    \/ pc = "wait" /\ \E r \in FewSearchReplies : query_ret(r)
    \/ pc = "idle" /\ getbugfields
    \/ pc = "wait" /\ \E r \in FieldsReplies : getbugfields_ret(r)
    \/ Environment

Spec == Init /\ [][Next]_vars

\* _query alone, with few queries and every reply
NextSearch ==
    \/ pc = "idle" /\ \E q \in FewQueries : query(q)
    \/ pc = "wait" /\ \E r \in SearchReplies : query_ret(r)
    \/ Environment

SpecSearch == Init /\ [][NextSearch]_vars

(***************************************************************************)
(* Properties.                                                             *)
(***************************************************************************)
Count(l, x) == Cardinality({k \in 1..Len(l) : l[k] = x})

Returned(o) == op = o /\ pc = "done" /\ result.kind = "return"

\* the call of op is out: the mapping the proxy received is calls[1].params
Called(o) == op = o /\ Len(calls) >= 1

\* C1: _getbugs returns a list as long as idlist whose element i is a record
\* of the reply with id int(idlist[i]), or None when the reply has no record
\* with that id, whatever the order of the reply, whichever ids it lacks and
\* whichever ids idlist repeats.
C1_GetBugsAligned ==
    Returned("_getbugs") =>
        LET L == arg.idlist
            bugs == replies[1].value.bugs
            out == result.value
        IN  /\ Len(out) = Len(L)
            /\ \A i \in 1..Len(L) :
                   LET hits == {k \in 1..Len(bugs) : bugs[k].id = py_int(L[i]).v}
                   IN  IF hits = {} THEN out[i] = None
                       ELSE \E k \in hits : out[i] = bugs[k]

\* idlist [1, '2', 1] answered by [bug 12, bug 1]: bug 2 is missing, bug 1
\* is asked for twice, and the reply is in another order than the request.
C1_Witness ==
    /\ Returned("_getbugs")
    /\ arg.idlist = <<PyInt(1), PyStr(<<"2">>), PyInt(1)>>
    /\ replies[1].value.bugs =
           <<[id |-> 12, summary |-> "a"], [id |-> 1, summary |-> "a"]>>
    /\ result.value = <<[id |-> 1, summary |-> "a"], None,
                        [id |-> 1, summary |-> "a"]>>

IsEmptyArg(x) == x = None \/ (x.t \in {"list", "str"} /\ x.v = <<>>)

\* C2: _getusers with ids, names and match all None or empty raises
\* NeedParamError without any proxy call; otherwise it issues exactly one
\* User.get call, with exactly the non-empty arguments.
C2_GetUsersParams ==
    (op = "_getusers") =>
        LET given == {k \in {"ids", "names", "match"} : ~IsEmptyArg(arg[k])}
        IN  IF given = {}
            THEN /\ pc = "done"
                 /\ result = [kind |-> "raise", exc |-> "NeedParamError"]
                 /\ calls = <<>>
                 /\ replies = <<>>
            ELSE /\ Len(calls) = 1
                 /\ calls[1].method = "User.get"
                 /\ DOMAIN calls[1].params = given
                 /\ \A k \in given : calls[1].params[k] = arg[k]

C2_Witness ==
    /\ op = "_getusers"
    /\ arg = [ids |-> PyList(<<>>), names |-> None, match |-> PyStr(<<>>)]
    /\ result = [kind |-> "raise", exc |-> "NeedParamError"]
    /\ calls = <<>>

\* C3: a Fault of a proxy call is the last thing the method's proxy saw: it
\* ends the method, the caller gets the same code and message, and no call
\* follows it; Product.get_products is only the second call of _getproducts,
\* issued after Product.get_accessible_products returned, with what it
\* returned.
C3_FaultPropagates ==
    /\ Len(replies) <= Len(calls)
    /\ \A i \in 1..Len(replies) :
           replies[i].kind = "fault" =>
               /\ i = Len(replies)
               /\ Len(calls) = i
               /\ pc = "done"
               /\ result = [kind |-> "raise", exc |-> "Fault",
                            code |-> replies[i].code, msg |-> replies[i].msg]
    /\ \A i \in 1..Len(calls) :
           calls[i].method = "Product.get_products" =>
               /\ i = 2
               /\ calls[1].method = "Product.get_accessible_products"
               /\ replies[1].kind = "ok"
               /\ calls[2].params = replies[1].value

C3_Witness ==
    /\ op = "_getproducts"
    /\ pc = "done"
    /\ Len(calls) = 1
    /\ replies = <<[kind |-> "fault", code |-> 304, msg |-> "Not authorized"]>>
    /\ result.kind = "raise"

\* C4: the mapping Bug.search receives has no bug_id; its id is the list of
\* the comma-separated pieces of a bug_id string (the pieces hold no comma and
\* joined by commas give bug_id back), or the bug_id list itself; a query
\* without bug_id gets no id.
C4_BugIdToId ==
    Called("_query") =>
        LET q == arg.query
            out == calls[1].params
        IN  IF "bug_id" \in DOMAIN q
            THEN /\ "bug_id" \notin DOMAIN out
                 /\ "id" \in DOMAIN out
                 /\ q["bug_id"].t = "list" => out["id"] = q["bug_id"].v
                 /\ q["bug_id"].t = "str" =>
                        /\ Len(out["id"]) >= 1
                        /\ \A k \in 1..Len(out["id"]) :
                               ~list_contains(out["id"][k], ",")
                        /\ str_join(<<",">>, out["id"]) = q["bug_id"].v
            ELSE "id" \in DOMAIN out <=> "id" \in DOMAIN q

C4_Witness ==
    /\ Called("_query")
    /\ "bug_id" \in DOMAIN arg.query
    /\ arg.query["bug_id"] = PyStr(<<"1", ",", "2", ",", "1">>)
    /\ calls[1].params["id"] = << <<"1">>, <<"2">>, <<"1">> >>
    /\ "bug_id" \notin DOMAIN calls[1].params

\* the name Bug.search understands
Substituted(n) ==
    IF n = "blockedby" THEN "blocks" ELSE IF n = "bug_id" THEN "id" ELSE n

\* C5: the include_fields Bug.search receives holds neither 'blockedby' nor
\* 'bug_id': it is the column_list with every 'blockedby' replaced by
\* 'blocks' and every 'bug_id' by 'id', also when a name is listed twice.
C5_EveryNameSubstituted ==
    (Called("_query") /\ "column_list" \in DOMAIN arg.query) =>
        LET cl == arg.query["column_list"]
            inc == calls[1].params["include_fields"]
        IN  /\ ~list_contains(inc, "blockedby")
            /\ ~list_contains(inc, "bug_id")
            /\ \A n \in ColumnNames \cup {"blocks"} :
                   Count(inc, n) =
                       Cardinality({k \in 1..Len(cl) : Substituted(cl[k]) = n})

\* C6: a record of the reply with blocks has blockedby: '' for an empty
\* blocks, else the str() of the ids of blocks, in order, joined by commas;
\* a record without blocks has the blockedby it came with, or none.
C6_BlockedBy ==
    Returned("_query") =>
        LET bugs == replies[1].value["bugs"]
            out == result.value["bugs"]
        IN  /\ Len(out) = Len(bugs)
            /\ \A k \in 1..Len(bugs) :
                   IF "blocks" \in DOMAIN bugs[k]
                   THEN /\ "blockedby" \in DOMAIN out[k]
                        /\ bugs[k]["blocks"] = <<>> => out[k]["blockedby"] = <<>>
                        /\ bugs[k]["blocks"] = <<5, 12>> =>
                               out[k]["blockedby"] = <<"5", ",", "1", "2">>
                        /\ bugs[k]["blocks"] # <<>> =>
                               LET ps == str_split(out[k]["blockedby"], ",")
                               IN  /\ Len(ps) = Len(bugs[k]["blocks"])
                                   /\ \A i \in 1..Len(ps) :
                                          py_int(PyStr(ps[i])) =
                                              [ok |-> TRUE,
                                               v |-> bugs[k]["blocks"][i]]
                   ELSE /\ "blockedby" \in DOMAIN out[k]
                            <=> "blockedby" \in DOMAIN bugs[k]
                        /\ "blockedby" \in DOMAIN bugs[k] =>
                               out[k]["blockedby"] = bugs[k]["blockedby"]

C6_Witness ==
    /\ Returned("_query")
    /\ Len(replies[1].value["bugs"]) = 2
    /\ "blocks" \in DOMAIN replies[1].value["bugs"][1]
    /\ replies[1].value["bugs"][1]["blocks"] = <<5, 12>>
    /\ result.value["bugs"][1]["blockedby"] = <<"5", ",", "1", "2">>
    /\ "blocks" \in DOMAIN replies[1].value["bugs"][2]
    /\ replies[1].value["bugs"][2]["blocks"] = <<>>
    /\ result.value["bugs"][2]["blockedby"] = <<>>

\* C7 as claimed: _getbugfields returns the names of the reply, in order,
\* then 'blockedby', and holds 'blockedby' exactly once.
C7_BlockedByOnce ==
    Returned("_getbugfields") =>
        LET fields == replies[1].value.fields
            out == result.value
        IN  /\ out = [k \in 1..Len(fields) |-> fields[k].name] \o <<"blockedby">>
            /\ Count(out, "blockedby") = 1

\* C7, amended: _getbugfields returns the names of the reply, in order, then
\* 'blockedby'; it holds 'blockedby' once more than the reply does, so
\* exactly once when the reply does not name it.
C7_BlockedByAppended ==
    Returned("_getbugfields") =>
        LET fields == replies[1].value.fields
            names == [k \in 1..Len(fields) |-> fields[k].name]
            out == result.value
        IN  /\ Len(out) = Len(fields) + 1
            /\ out[Len(out)] = "blockedby"
            /\ \A k \in 1..Len(fields) : out[k] = fields[k].name
            /\ Count(out, "blockedby") = Count(names, "blockedby") + 1

C7_Witness ==
    /\ Returned("_getbugfields")
    /\ replies[1].value.fields = <<[name |-> "summary"], [name |-> "cf_qa"]>>
    /\ result.value = <<"summary", "cf_qa", "blockedby">>

C9_FlagsString ==
    Returned("_query") =>
        LET bugs == replies[1].value["bugs"]
            out == result.value["bugs"]
        IN  /\ Len(out) = Len(bugs)
            /\ \A k \in 1..Len(bugs) :
                   IF "flags" \in DOMAIN bugs[k]
                   THEN LET fl == bugs[k]["flags"]
                        IN  /\ "flags" \in DOMAIN out[k]
                            /\ fl = <<>> => out[k]["flags"] = <<>>
                            /\ fl = <<[name |-> <<"r", "e", "v", "i", "e", "w">>,
                                       status |-> <<"+">>]>> =>
                                   out[k]["flags"] =
                                       <<"r", "e", "v", "i", "e", "w", "+">>
                            /\ fl # <<>> =>
                                   str_split(out[k]["flags"], ",") =
                                       [i \in 1..Len(fl) |->
                                           fl[i].name \o fl[i].status]
                   ELSE "flags" \notin DOMAIN out[k]

C9_Witness ==
    /\ Returned("_query")
    /\ Len(replies[1].value["bugs"]) = 2
    /\ "flags" \in DOMAIN replies[1].value["bugs"][1]
    /\ replies[1].value["bugs"][1]["flags"] =
           <<[name |-> <<"r", "e", "v", "i", "e", "w">>, status |-> <<"+">>],
             [name |-> <<"q", "e">>, status |-> <<"?">>]>>
    /\ result.value["bugs"][1]["flags"] =
           <<"r", "e", "v", "i", "e", "w", "+", ",", "q", "e", "?">>
    /\ "flags" \notin DOMAIN replies[1].value["bugs"][2]
    /\ "flags" \notin DOMAIN result.value["bugs"][2]

\* C10: _addcomment issues exactly one call, Bug.add_comment, with exactly
\* id, comment, private and work_time (the worktime argument), whatever
\* timestamp and bz_gid are.
C10_AddCommentParams ==
    (op = "_addcomment") =>
        /\ Len(calls) = 1
        /\ calls[1].method = "Bug.add_comment"
        /\ calls[1].params = [id |-> arg.id, comment |-> arg.comment,
                              private |-> arg.private,
                              work_time |-> arg.worktime]
        /\ DOMAIN calls[1].params = {"id", "comment", "private", "work_time"}

C10_Witness ==
    /\ op = "_addcomment"
    /\ arg.timestamp = "2020-01-01"
    /\ arg.bz_gid = "devel"
    /\ arg.worktime = "1.5"
    /\ Len(calls) = 1
    /\ calls[1].params.work_time = "1.5"

====
